---------------------------- MODULE Spec2Model ----------------------------
(***************************************************************************)
(* A model of the SP1 Groth16 verifier for Solana (sp1-solana).            *)
(*                                                                         *)
(* Byte strings are sequences of integers 0..255 and keep the lengths of   *)
(* the source (32, 64, 128, 256, 63 bytes).  Field elements of BN254 are   *)
(* 32-byte big-endian strings and their arithmetic is done bytewise, the   *)
(* modulus being the real one.  The primitives that live outside the       *)
(* repository (SHA-256, point decompression, the pairing product) are      *)
(* stand-ins with the same interface: deterministic functions of exactly   *)
(* the bytes the code hands them.                                          *)
(***************************************************************************)
EXTENDS Integers, Sequences, FiniteSets, TLC

(***************************************************************************)
(* Results: Ok(v), Err(e), or a panic (an unwinding, not a value).         *)
(***************************************************************************)
Ok(v) == [tag |-> "Ok", val |-> v]
Err(e) == [tag |-> "Err", err |-> e]
Panic == [tag |-> "Panic"]
IsOk(r) == r.tag = "Ok"
IsErr(r, e) == r.tag = "Err" /\ r.err = e

\* r? followed by F on the unwrapped value; map_err(|_| e); let x = v.
Try(r, F(_)) == IF IsOk(r) THEN F(r.val) ELSE r
MapErr(r, e) == IF r.tag = "Err" THEN Err(e) ELSE r
Bind(v, F(_)) == F(v)

(***************************************************************************)
(* Bytes and bit operations on bytes (u8).                                 *)
(***************************************************************************)
Byte == 0..255

RECURSIVE BitAndN(_, _, _)
BitAndN(a, b, n) ==
    IF n = 0 THEN 0
    ELSE (a % 2) * (b % 2) + 2 * BitAndN(a \div 2, b \div 2, n - 1)

RECURSIVE BitOrN(_, _, _)
BitOrN(a, b, n) ==
    IF n = 0 THEN 0
    ELSE (IF a % 2 = 1 \/ b % 2 = 1 THEN 1 ELSE 0)
         + 2 * BitOrN(a \div 2, b \div 2, n - 1)

BitAnd(a, b) == BitAndN(a, b, 8)
BitOr(a, b) == BitOrN(a, b, 8)
BitNot(a) == 255 - a
Shl(a, k) == (a * (2 ^ k)) % 256

Zeros(n) == [i \in 1..n |-> 0]
Reverse(s) == [i \in 1..Len(s) |-> s[Len(s) + 1 - i]]
\* The Rust slice s[from..to] (0-based, `to` exclusive).
Slice(s, from, to) == SubSeq(s, from + 1, to)

SCALAR_LEN == 32
G1_LEN == 64
G2_LEN == 128

(***************************************************************************)
(* convert_endianness::<CHUNK_SIZE, ARRAY_SIZE>: every full chunk          *)
(* reversed in place; bytes past the last full chunk stay zero.            *)
(***************************************************************************)
convert_endianness(chunk, bytes) ==
    [i \in 1..Len(bytes) |->
        LET c == (i - 1) \div chunk
            o == (i - 1) % chunk
        IN  IF (c + 1) * chunk <= Len(bytes)
            THEN bytes[c * chunk + (chunk - o)]
            ELSE 0]

(***************************************************************************)
(* gnark -> arkworks flag remap of the leading byte.                       *)
(***************************************************************************)
GNARK_MASK == Shl(3, 6)
GNARK_COMPRESSED_POSITIVE == Shl(2, 6)
GNARK_COMPRESSED_NEGATIVE == Shl(3, 6)
GNARK_COMPRESSED_INFINITY == Shl(1, 6)
ARK_MASK == Shl(3, 6)
ARK_COMPRESSED_POSITIVE == Shl(0, 6)
ARK_COMPRESSED_NEGATIVE == Shl(2, 6)
ARK_COMPRESSED_INFINITY == Shl(1, 6)

gnark_flag_to_ark_flag_swapped(msb) ==
    LET gnark_flag == BitAnd(msb, GNARK_MASK)
    IN  IF gnark_flag = GNARK_COMPRESSED_POSITIVE
        THEN Ok(BitOr(BitAnd(msb, BitNot(ARK_MASK)), ARK_COMPRESSED_NEGATIVE))
        ELSE IF gnark_flag = GNARK_COMPRESSED_NEGATIVE
        THEN Ok(BitOr(BitAnd(msb, BitNot(ARK_MASK)), ARK_COMPRESSED_POSITIVE))
        ELSE IF gnark_flag = GNARK_COMPRESSED_INFINITY
        THEN Ok(BitOr(BitAnd(msb, BitNot(ARK_MASK)), ARK_COMPRESSED_INFINITY))
        ELSE Err("InvalidInput")

gnark_flag_to_ark_flag(msb) ==
    LET gnark_flag == BitAnd(msb, GNARK_MASK)
    IN  IF gnark_flag = GNARK_COMPRESSED_POSITIVE
        THEN Ok(BitOr(BitAnd(msb, BitNot(ARK_MASK)), ARK_COMPRESSED_POSITIVE))
        ELSE IF gnark_flag = GNARK_COMPRESSED_NEGATIVE
        THEN Ok(BitOr(BitAnd(msb, BitNot(ARK_MASK)), ARK_COMPRESSED_NEGATIVE))
        ELSE IF gnark_flag = GNARK_COMPRESSED_INFINITY
        THEN Ok(BitOr(BitAnd(msb, BitNot(ARK_MASK)), ARK_COMPRESSED_INFINITY))
        ELSE Err("InvalidInput")

gnark_compressed_x_to_ark_compressed_x(x) ==
    IF Len(x) # 32 /\ Len(x) # 64 THEN Err("InvalidInput")
    ELSE LET msb == gnark_flag_to_ark_flag(x[1])
         IN  IF ~IsOk(msb) THEN msb
             ELSE Ok(Reverse([x EXCEPT ![1] = msb.val]))

(***************************************************************************)
(* Big-endian unsigned arithmetic on byte strings of equal length.         *)
(***************************************************************************)
\* a < b: they first differ at a byte where a's is the smaller.
LtBE(a, b) ==
    \E i \in 1..Len(a) :
        /\ a[i] < b[i]
        /\ \A j \in 1..(i - 1) : a[j] = b[j]
LeBE(a, b) == ~LtBE(b, a)

\* The borrow that position i takes from the positions to its right: one
\* iff what a has to the right of i is less than what b has there.
BorrowAt(a, b, i) ==
    IF LtBE(SubSeq(a, i + 1, Len(a)), SubSeq(b, i + 1, Len(b))) THEN 1 ELSE 0

\* a - b for a >= b.
SubBE(a, b) ==
    LET d == [i \in 1..Len(a) |-> (a[i] - b[i] - BorrowAt(a, b, i) + 256) % 256]
    IN  SubSeq(d, 1, Len(a))

(***************************************************************************)
(* The BN254 base field Fq (ark_bn254::Fq): the modulus, reduction of a    *)
(* 32-byte big-endian string (Fq::from_be_bytes_mod_order) and negation.   *)
(***************************************************************************)
FqModulus ==
    << 48, 100, 78, 114, 225, 49, 160, 41, 184, 80, 69, 182, 129, 129, 88, 93,
       151, 129, 106, 145, 104, 113, 202, 141, 60, 32, 140, 22, 216, 124, 253,
       71 >>

RECURSIVE from_be_bytes_mod_order(_)
from_be_bytes_mod_order(bytes) ==
    IF LtBE(bytes, FqModulus) THEN bytes
    ELSE from_be_bytes_mod_order(SubBE(bytes, FqModulus))

FqNeg(y) == IF y = Zeros(32) THEN y ELSE SubBE(FqModulus, y)

(***************************************************************************)
(* Affine points of G1 as records [x, y] of reduced field elements.        *)
(***************************************************************************)
uncompressed_bytes_to_g1_point(buf) ==
    IF Len(buf) # 64 THEN Err("InvalidInput")
    ELSE Ok([x |-> from_be_bytes_mod_order(Slice(buf, 0, 32)),
             y |-> from_be_bytes_mod_order(Slice(buf, 32, 64))])

\* ark_ec's Affine::to_flags for a finite point: the bit mask written into
\* the top bits of the last serialized byte (YIsNegative = 1 << 7).
SWFlagsMask(pt) == IF LeBE(pt.y, FqNeg(pt.y)) THEN 0 ELSE Shl(1, 7)

\* CanonicalSerialize::serialize_uncompressed of a finite affine point:
\* x little-endian, then y little-endian with the flags in its last byte.
serialize_uncompressed(pt) ==
    LET xs == Reverse(pt.x)
        ys == Reverse(pt.y)
    IN  xs \o [ys EXCEPT ![32] = BitOr(@, SWFlagsMask(pt))]

negate_g1(g1_bytes) ==
    LET pt == uncompressed_bytes_to_g1_point(g1_bytes)
    IN  IF ~IsOk(pt) THEN pt
        ELSE LET g1 == [x |-> pt.val.x, y |-> FqNeg(pt.val.y)]
             IN  Ok(convert_endianness(32, serialize_uncompressed(g1)))

(***************************************************************************)
(* load_proof_from_bytes: the three slices are taken in order; a slice     *)
(* past the end of the buffer panics.                                      *)
(***************************************************************************)
load_proof_from_bytes_shifted(buffer) ==
    IF Len(buffer) < 256 THEN Panic
    ELSE LET a == negate_g1(Slice(buffer, 0, 64))
         IN  IF ~IsOk(a) THEN a
             ELSE Ok([pi_a |-> a.val,
                      pi_b |-> Slice(buffer, 64, 192),
                      pi_c |-> Slice(buffer, 0, 64)])

load_proof_from_bytes(buffer) ==
    IF Len(buffer) < 64 THEN Panic
    ELSE LET a == negate_g1(Slice(buffer, 0, 64))
         IN  IF ~IsOk(a) THEN a
             ELSE IF Len(buffer) < 192 THEN Panic
             ELSE IF Len(buffer) < 256 THEN Panic
             ELSE Ok([pi_a |-> a.val,
                      pi_b |-> Slice(buffer, 64, 192),
                      pi_c |-> Slice(buffer, 192, 256)])

(***************************************************************************)
(* Stand-ins for the BN254 primitives of the groth16_solana crate.  The    *)
(* "curve" is a toy: x has a point iff HasRoot(x), its root with the       *)
(* smaller y is CurveY(x).  The interface is the primitives': big-endian   *)
(* input carrying the arkworks flags in the top two bits of the leading    *)
(* byte, big-endian x || y output, an error for a flag pattern of 11, a    *)
(* coordinate outside [0, p) or an x without a point.                      *)
(***************************************************************************)
HasRoot(x) == x[32] % 8 # 7
CurveY(x) == <<1 + (x[32] % 16)>> \o [i \in 1..31 |-> x[33 - i]]

ClearFlags(bytes) == [bytes EXCEPT ![1] = BitAnd(@, BitNot(ARK_MASK))]

alt_bn128_g1_decompress(bytes) ==
    LET flags == BitAnd(bytes[1], ARK_MASK)
        x == ClearFlags(bytes)
    IN  IF bytes = Zeros(32) THEN Ok(Zeros(64))
        ELSE IF flags = ARK_MASK THEN Err("DecompressionFailed")
        ELSE IF flags = ARK_COMPRESSED_INFINITY THEN Ok(Zeros(64))
        ELSE IF ~LtBE(x, FqModulus) \/ ~HasRoot(x) THEN Err("DecompressionFailed")
        ELSE IF flags = ARK_COMPRESSED_NEGATIVE THEN Ok(x \o FqNeg(CurveY(x)))
        ELSE Ok(x \o CurveY(x))

alt_bn128_g2_decompress(bytes) ==
    LET flags == BitAnd(bytes[1], ARK_MASK)
        x1 == ClearFlags(Slice(bytes, 0, 32))
        x0 == Slice(bytes, 32, 64)
    IN  IF bytes = Zeros(64) THEN Ok(Zeros(128))
        ELSE IF flags = ARK_MASK THEN Err("DecompressionFailed")
        ELSE IF flags = ARK_COMPRESSED_INFINITY THEN Ok(Zeros(128))
        ELSE IF ~LtBE(x1, FqModulus) \/ ~LtBE(x0, FqModulus) \/ ~HasRoot(x0)
        THEN Err("DecompressionFailed")
        ELSE IF flags = ARK_COMPRESSED_NEGATIVE
        THEN Ok(x1 \o x0 \o FqNeg(CurveY(x1)) \o FqNeg(CurveY(x0)))
        ELSE Ok(x1 \o x0 \o CurveY(x1) \o CurveY(x0))

(***************************************************************************)
(* decompress_g1 / decompress_g2: flag remap and reversal, then a second   *)
(* reversal by convert_endianness over one whole-length chunk, then the    *)
(* primitive.                                                              *)
(***************************************************************************)
decompress_g1_input_reversed_once(g1_bytes) ==
    gnark_compressed_x_to_ark_compressed_x(g1_bytes)

decompress_g1_input(g1_bytes) ==
    Try(gnark_compressed_x_to_ark_compressed_x(g1_bytes),
        LAMBDA a : Ok(convert_endianness(32, a)))

decompress_g1(g1_bytes) ==
    Try(decompress_g1_input(g1_bytes),
        LAMBDA b : MapErr(alt_bn128_g1_decompress(b), "G1CompressionError"))

decompress_g2_input(g2_bytes) ==
    Try(gnark_compressed_x_to_ark_compressed_x(g2_bytes),
        LAMBDA a : Ok(convert_endianness(64, a)))

decompress_g2(g2_bytes) ==
    Try(decompress_g2_input(g2_bytes),
        LAMBDA b : MapErr(alt_bn128_g2_decompress(b), "G2CompressionError"))

(***************************************************************************)
(* u32::from_be_bytes / from_le_bytes.  Values of 2^30 and more are        *)
(* reported as 2^30: every buffer of the model is far shorter, so a count  *)
(* or a length that large runs off the end of the buffer just the same.    *)
(***************************************************************************)
U32Sat == 2 ^ 30
u32_from_be_bytes(b) ==
    IF b[1] >= 64 THEN U32Sat
    ELSE ((b[1] * 256 + b[2]) * 256 + b[3]) * 256 + b[4]
u32_from_le_bytes(b) == u32_from_be_bytes(Reverse(b))

(***************************************************************************)
(* load_groth16_verifying_key_from_bytes.  Reads are in source order; an   *)
(* index or a slice past the end of the buffer panics.                     *)
(***************************************************************************)
\* A slice buffer[offset..offset + n] handed to a reader.
ReadG1(buffer, offset) ==
    IF offset + 32 > Len(buffer) THEN Panic
    ELSE decompress_g1(Slice(buffer, offset, offset + 32))

ReadG2(buffer, offset) ==
    IF offset + 64 > Len(buffer) THEN Panic
    ELSE decompress_g2(Slice(buffer, offset, offset + 64))

ReadU32(buffer, offset) ==
    IF offset + 4 > Len(buffer) THEN Panic
    ELSE Ok(u32_from_be_bytes(Slice(buffer, offset, offset + 4)))

RECURSIVE ReadK(_, _, _, _)
ReadK(buffer, offset, n, k) ==
    IF n = 0 THEN Ok([k |-> k, offset |-> offset])
    ELSE Try(ReadG1(buffer, offset),
             LAMBDA point : ReadK(buffer, offset + 32, n - 1, Append(k, point)))

RECURSIVE SkipCommitmentGroups(_, _, _)
SkipCommitmentGroups(buffer, offset, n) ==
    IF n = 0 THEN Ok(offset)
    ELSE Try(ReadU32(buffer, offset),
             LAMBDA num :
                 SkipCommitmentGroups(
                     buffer,
                     IF num >= 2 ^ 24 THEN U32Sat ELSE offset + 4 + 4 * num,
                     n - 1))

load_groth16_verifying_key_from_bytes_delta_at_192(buffer) ==
    Try(ReadG1(buffer, 0), LAMBDA g1_alpha :
    Try(ReadG2(buffer, 64), LAMBDA g2_beta :
    Try(ReadG2(buffer, 128), LAMBDA g2_gamma :
    Try(ReadG2(buffer, 192), LAMBDA g2_delta :
    Try(ReadU32(buffer, 288), LAMBDA num_k :
    Try(ReadK(buffer, 292, num_k, <<>>), LAMBDA ks :
    Try(ReadU32(buffer, ks.offset), LAMBDA num_groups :
    Try(SkipCommitmentGroups(buffer, ks.offset + 4, num_groups), LAMBDA skipped :
        Ok([vk_alpha_g1 |-> g1_alpha,
            vk_beta_g2 |-> g2_beta,
            vk_gamma_g2 |-> g2_gamma,
            vk_delta_g2 |-> g2_delta,
            vk_ic |-> ks.k,
            nr_pubinputs |-> num_groups])))))))))

load_groth16_verifying_key_from_bytes(buffer) ==
    Try(ReadG1(buffer, 0), LAMBDA g1_alpha :
    Try(ReadG2(buffer, 64), LAMBDA g2_beta :
    Try(ReadG2(buffer, 128), LAMBDA g2_gamma :
    Try(ReadG2(buffer, 224), LAMBDA g2_delta :
    Try(ReadU32(buffer, 288), LAMBDA num_k :
    Try(ReadK(buffer, 292, num_k, <<>>), LAMBDA ks :
    Try(ReadU32(buffer, ks.offset), LAMBDA num_groups :
    Try(SkipCommitmentGroups(buffer, ks.offset + 4, num_groups), LAMBDA skipped :
        Ok([vk_alpha_g1 |-> g1_alpha,
            vk_beta_g2 |-> g2_beta,
            vk_gamma_g2 |-> g2_gamma,
            vk_delta_g2 |-> g2_delta,
            vk_ic |-> ks.k,
            nr_pubinputs |-> num_groups])))))))))

(***************************************************************************)
(* load_public_inputs_from_bytes: copy_from_slice panics unless the        *)
(* buffer has exactly 63 bytes.                                            *)
(***************************************************************************)
load_public_inputs_from_bytes(buffer) ==
    IF Len(buffer) # 63 THEN Panic
    ELSE LET bytes == [i \in 1..64 |-> IF i = 1 THEN 0 ELSE buffer[i - 1]]
         IN  Ok(<<Slice(bytes, 0, 32), Slice(bytes, 32, 64)>>)

(***************************************************************************)
(* SHA-256 (the sha2 crate) is a stand-in: a deterministic 32-byte digest  *)
(* of the whole input.                                                     *)
(***************************************************************************)
DigestModulus == 32749

RECURSIVE PowMod(_, _, _)
PowMod(b, e, m) ==
    IF e = 0 THEN 1 % m
    ELSE IF e % 2 = 1 THEN (b * PowMod(b, e - 1, m)) % m
    ELSE LET h == PowMod(b, e \div 2, m) IN (h * h) % m

\* The polynomial sum of (x[i] + 1) * 31^(hi - i) over lo..hi.
RECURSIVE Absorb(_, _, _)
Absorb(x, lo, hi) ==
    IF lo > hi THEN 0
    ELSE IF lo = hi THEN x[lo] + 1
    ELSE LET mid == (lo + hi) \div 2
         IN  (Absorb(x, lo, mid) * PowMod(31, hi - mid, DigestModulus) + Absorb(x, mid + 1, hi))
             % DigestModulus

Sha256(x) ==
    LET a == (Absorb(x, 1, Len(x)) + 7 * Len(x) + 5) % DigestModulus
    IN  [i \in 1..32 |-> (a * (2 * i - 1) + (a \div 128) * i + i * i) % 256]

(***************************************************************************)
(* Public-input derivation (utils.rs).                                     *)
(***************************************************************************)
hash_public_inputs_mask_3f(public_inputs) ==
    LET result == Sha256(public_inputs)
    IN  [result EXCEPT ![1] = BitAnd(@, 63)]

hash_public_inputs(public_inputs) ==
    LET result == Sha256(public_inputs)
    IN  [result EXCEPT ![1] = BitAnd(@, 31)]

groth16_public_values_off_by_one(sp1_vkey_hash, sp1_public_inputs) ==
    LET committed_values_digest == hash_public_inputs(sp1_public_inputs)
    IN  Slice(sp1_vkey_hash, 0, 31) \o committed_values_digest

groth16_public_values(sp1_vkey_hash, sp1_public_inputs) ==
    LET committed_values_digest == hash_public_inputs(sp1_public_inputs)
    IN  Slice(sp1_vkey_hash, 1, 32) \o committed_values_digest

(***************************************************************************)
(* decode_sp1_vkey_hash.  A string is a sequence of one-character          *)
(* strings.  The slice [2..] panics on a string shorter than two bytes;    *)
(* hex::decode rejects an odd length and a non-hex character.              *)
(***************************************************************************)
HexLower ==
    << "0", "1", "2", "3", "4", "5", "6", "7", "8", "9",
       "a", "b", "c", "d", "e", "f" >>
HexUpper ==
    << "0", "1", "2", "3", "4", "5", "6", "7", "8", "9",
       "A", "B", "C", "D", "E", "F" >>
IsHexChar(c) == \E i \in 1..16 : HexLower[i] = c \/ HexUpper[i] = c
HexVal(c) == (CHOOSE i \in 1..16 : HexLower[i] = c \/ HexUpper[i] = c) - 1

hex_decode_low_nibble_first(str) ==
    IF Len(str) % 2 # 0 THEN Err("OddLength")
    ELSE IF \E i \in 1..Len(str) : ~IsHexChar(str[i]) THEN Err("InvalidHexCharacter")
    ELSE Ok([i \in 1..(Len(str) \div 2) |->
                HexVal(str[2 * i - 1]) + 16 * HexVal(str[2 * i])])

hex_decode(str) ==
    IF Len(str) % 2 # 0 THEN Err("OddLength")
    ELSE IF \E i \in 1..Len(str) : ~IsHexChar(str[i]) THEN Err("InvalidHexCharacter")
    ELSE Ok([i \in 1..(Len(str) \div 2) |->
                16 * HexVal(str[2 * i - 1]) + HexVal(str[2 * i])])

hex_encode(bytes) ==
    [i \in 1..(2 * Len(bytes)) |->
        IF i % 2 = 1 THEN HexLower[(bytes[(i + 1) \div 2] \div 16) + 1]
        ELSE HexLower[(bytes[i \div 2] % 16) + 1]]

decode_sp1_vkey_hash(sp1_vkey_hash) ==
    IF Len(sp1_vkey_hash) < 2 THEN Panic
    ELSE LET bytes == hex_decode(SubSeq(sp1_vkey_hash, 3, Len(sp1_vkey_hash)))
         IN  IF ~IsOk(bytes) THEN Err("InvalidProgramVkeyHash")
             ELSE IF Len(bytes.val) # 32 THEN Err("InvalidProgramVkeyHash")
             ELSE Ok(bytes.val)

FIBONACCI_VKEY_HASH ==
    << "0", "x", "0", "0", "8", "3", "e", "8", "e", "3", "7",
       "0", "d", "7", "f", "0", "d", "1", "c", "4", "6", "3",
       "3", "3", "7", "f", "7", "6", "c", "9", "a", "6", "0",
       "b", "6", "2", "a", "d", "7", "c", "c", "5", "4", "c",
       "8", "9", "3", "2", "9", "1", "0", "7", "c", "9", "2",
       "c", "1", "e", "6", "2", "0", "9", "7", "8", "7", "2" >>

(***************************************************************************)
(* Stand-in for groth16_solana::groth16::Groth16Verifier.  Every point     *)
(* of the toy curve has a discrete logarithm modulo PairingOrder; the      *)
(* pairing of two points is the product of their logarithms, so that the   *)
(* product of the four pairings is one iff the sum of the four products    *)
(* is 0.  A point is decoded the way the alt_bn128 syscalls decode it:     *)
(* all-zero bytes are the identity, the top two bits of y's leading byte   *)
(* are arkworks flags and are not part of y.  A -1 marks an invalid point. *)
(***************************************************************************)
PairingOrder == 7

\* The big-endian value of bytes[lo..hi] modulo m.
RECURSIVE ValueMod(_, _, _, _)
ValueMod(bytes, lo, hi, m) ==
    IF lo > hi THEN 0
    ELSE IF lo = hi THEN bytes[lo] % m
    ELSE LET mid == (lo + hi) \div 2
         IN  (ValueMod(bytes, lo, mid, m) * PowMod(256 % m, hi - mid, m)
              + ValueMod(bytes, mid + 1, hi, m)) % m

BytesMod(bytes, m) == ValueMod(bytes, 1, Len(bytes), m)

G1Dlog(pt) ==
    LET x == Slice(pt, 0, 32)
        flags == BitAnd(pt[33], ARK_MASK)
        y == ClearFlags(Slice(pt, 32, 64))
        g == 1 + BytesMod(x, PairingOrder - 1)
    IN  IF pt = Zeros(64) THEN 0
        ELSE IF flags = ARK_MASK THEN -1
        ELSE IF flags = ARK_COMPRESSED_INFINITY THEN 0
        ELSE IF ~LtBE(x, FqModulus) \/ ~LtBE(y, FqModulus) \/ ~HasRoot(x) THEN -1
        ELSE IF y = CurveY(x) THEN g
        ELSE IF y = FqNeg(CurveY(x)) THEN PairingOrder - g
        ELSE -1

G2Dlog(pt) ==
    LET x1 == Slice(pt, 0, 32)
        x0 == Slice(pt, 32, 64)
        flags == BitAnd(pt[65], ARK_MASK)
        y1 == ClearFlags(Slice(pt, 64, 96))
        y0 == Slice(pt, 96, 128)
        g == 1 + BytesMod(x1 \o x0, PairingOrder - 1)
    IN  IF pt = Zeros(128) THEN 0
        ELSE IF flags = ARK_MASK THEN -1
        ELSE IF flags = ARK_COMPRESSED_INFINITY THEN 0
        ELSE IF ~LtBE(x1, FqModulus) \/ ~LtBE(x0, FqModulus) \/ ~HasRoot(x0) THEN -1
        ELSE IF y1 = CurveY(x1) /\ y0 = CurveY(x0) THEN g
        ELSE IF y1 = FqNeg(CurveY(x1)) /\ y0 = FqNeg(CurveY(x0))
        THEN PairingOrder - g
        ELSE -1

\* The discrete logarithm of vk_ic[0] + sum of public_inputs[i] * vk_ic[i+1].
RECURSIVE PreparedInputsDlog(_, _, _)
PreparedInputsDlog(vk_ic, public_inputs, i) ==
    IF i > Len(public_inputs) THEN G1Dlog(vk_ic[1])
    ELSE (BytesMod(public_inputs[i], PairingOrder) * G1Dlog(vk_ic[i + 1])
          + PreparedInputsDlog(vk_ic, public_inputs, i + 1)) % PairingOrder

\* Groth16Verifier::new
Groth16Verifier_new(proof_a, proof_b, proof_c, public_inputs, vk) ==
    IF Len(vk.vk_ic) # Len(public_inputs) + 1
    THEN Err("InvalidPublicInputsLength")
    ELSE Ok([proof_a |-> proof_a, proof_b |-> proof_b, proof_c |-> proof_c,
             public_inputs |-> public_inputs, vk |-> vk])

\* How the engine reports a product that is not one: as Ok(false) or as an
\* error.  Both are within its signature Result<bool, Groth16Error>.
EngineModes == {"bool", "err"}

\* Groth16Verifier::verify
Groth16Verifier_verify(v, mode) ==
    LET a == G1Dlog(v.proof_a)
        b == G2Dlog(v.proof_b)
        c == G1Dlog(v.proof_c)
        alpha == G1Dlog(v.vk.vk_alpha_g1)
        beta == G2Dlog(v.vk.vk_beta_g2)
        gamma == G2Dlog(v.vk.vk_gamme_g2)
        delta == G2Dlog(v.vk.vk_delta_g2)
        l == PreparedInputsDlog(v.vk.vk_ic, v.public_inputs, 1)
    IN  IF \E i \in 1..Len(v.vk.vk_ic) : G1Dlog(v.vk.vk_ic[i]) = -1
        THEN Err("PreparingInputsG1MulFailed")
        ELSE IF -1 \in {a, b, c, alpha, beta, gamma, delta}
        THEN Err("ProofVerificationFailed")
        ELSE IF (a * b + l * gamma + c * delta + alpha * beta) % PairingOrder = 0
        THEN Ok(TRUE)
        ELSE IF mode = "bool" THEN Ok(FALSE)
        ELSE Err("ProofVerificationFailed")

(***************************************************************************)
(* A run of a verification entry point: its result, the stages it         *)
(* invoked in order, what it handed to Groth16Verifier::new, and what      *)
(* Groth16Verifier::verify answered.                                       *)
(***************************************************************************)
NotHanded == [some |-> FALSE]
Handed(v) == [some |-> TRUE, val |-> v]
NotRun == [tag |-> "NotRun"]
Run(result, trace, handed, engine) ==
    [result |-> result, trace |-> trace, handed |-> handed, engine |-> engine]
Prefixed(stage, run) == [run EXCEPT !.trace = <<stage>> \o @]

\* The tail of verify_proof_raw: what it makes of the engine's answer.
verify_outcome_accepts_false(answer) ==
    IF ~IsOk(answer) THEN Err("VerificationError")
    ELSE Ok("unit")

verify_outcome(answer) ==
    IF ~IsOk(answer) THEN Err("VerificationError")
    ELSE IF answer.val THEN Ok("unit")
    ELSE Err("VerificationError")

verify_proof_raw(proof_bytes, public_inputs_bytes, vk_bytes, mode) ==
    LET t1 == <<"load_proof_from_bytes">>
        t2 == Append(t1, "load_groth16_verifying_key_from_bytes")
        t3 == Append(t2, "load_public_inputs_from_bytes")
        t4 == Append(t3, "Groth16Verifier::new")
        t5 == Append(t4, "Groth16Verifier::verify")
    IN
    Bind(load_proof_from_bytes(proof_bytes), LAMBDA proof :
    IF ~IsOk(proof) THEN Run(proof, t1, NotHanded, NotRun) ELSE
    Bind(load_groth16_verifying_key_from_bytes(vk_bytes), LAMBDA vk :
    IF ~IsOk(vk) THEN Run(vk, t2, NotHanded, NotRun) ELSE
    Bind(load_public_inputs_from_bytes(public_inputs_bytes), LAMBDA public_inputs :
    IF ~IsOk(public_inputs) THEN Run(public_inputs, t3, NotHanded, NotRun) ELSE
    LET gvk == [nr_pubinputs |-> vk.val.nr_pubinputs,
                vk_alpha_g1 |-> vk.val.vk_alpha_g1,
                vk_beta_g2 |-> vk.val.vk_beta_g2,
                vk_gamme_g2 |-> vk.val.vk_gamma_g2,
                vk_delta_g2 |-> vk.val.vk_delta_g2,
                vk_ic |-> vk.val.vk_ic]
        handed == Handed([proof_a |-> proof.val.pi_a,
                          proof_b |-> proof.val.pi_b,
                          proof_c |-> proof.val.pi_c,
                          public_inputs |-> public_inputs.val,
                          vk |-> gvk])
    IN
    Bind(Groth16Verifier_new(proof.val.pi_a, proof.val.pi_b, proof.val.pi_c,
                             public_inputs.val, gvk), LAMBDA verifier :
    IF ~IsOk(verifier) THEN Run(Err("VerificationError"), t4, handed, NotRun) ELSE
    Bind(Groth16Verifier_verify(verifier.val, mode), LAMBDA answer :
    Run(verify_outcome(answer), t5, handed, answer))))))

(***************************************************************************)
(* verify_proof_fixture (fixture.rs).  A fixture is a record               *)
(* [proof, public_inputs, groth16_vkey_hash, sp1_public_inputs], the last  *)
(* an Option<Vec<u8>>.                                                     *)
(***************************************************************************)
None == [some |-> FALSE, val |-> <<>>]
Some(x) == [some |-> TRUE, val |-> x]

verify_proof_fixture_checks_late(fixture, vk, mode) ==
    Bind(verify_proof_raw(fixture.proof, fixture.public_inputs, vk, mode),
         LAMBDA run :
             IF ~IsOk(run.result) THEN run
             ELSE IF Slice(Sha256(vk), 0, 4) # fixture.groth16_vkey_hash
             THEN Run(Err("Groth16VkeyHashMismatch"),
                      Append(run.trace, "Sha256::digest"), run.handed, run.engine)
             ELSE [run EXCEPT !.trace = Append(@, "Sha256::digest")])

verify_proof_fixture(fixture, vk, mode) ==
    LET groth16_vk_hash == Slice(Sha256(vk), 0, 4)
    IN  IF groth16_vk_hash # fixture.groth16_vkey_hash
        THEN Run(Err("Groth16VkeyHashMismatch"), <<"Sha256::digest">>,
                 NotHanded, NotRun)
        ELSE Prefixed("Sha256::digest",
                 verify_proof_raw(fixture.proof, fixture.public_inputs, vk, mode))

(***************************************************************************)
(* verify_proof(proof, sp1_public_inputs, sp1_vkey_hash, vk): decode the   *)
(* vkey hash, build the public values, verify.                             *)
(***************************************************************************)
verify_proof(proof, sp1_public_inputs, sp1_vkey_hash, groth16_vk, mode) ==
    LET decoded == decode_sp1_vkey_hash(sp1_vkey_hash)
    IN  IF ~IsOk(decoded)
        THEN Run(decoded, <<"decode_sp1_vkey_hash">>, NotHanded, NotRun)
        ELSE Prefixed("decode_sp1_vkey_hash",
                 Prefixed("groth16_public_values",
                     verify_proof_raw(proof,
                         groth16_public_values(decoded.val, sp1_public_inputs),
                         groth16_vk, mode)))

(***************************************************************************)
(* Borsh deserialization of instruction data.                              *)
(***************************************************************************)
\* SP1ProofFixture::try_from_slice for the fixture of lib.rs (three fixed
\* arrays): all bytes must be read, none may be missing.
SP1ProofFixture_try_from_slice(data) ==
    IF Len(data) # 256 + 63 + 4 THEN Err("BorshIo")
    ELSE Ok([proof |-> Slice(data, 0, 256),
             public_inputs |-> Slice(data, 256, 319),
             groth16_vkey_hash |-> Slice(data, 319, 323),
             sp1_public_inputs |-> None])

\* A Vec<u8>: a little-endian u32 length, then that many bytes.
borsh_vec_u8(data, offset) ==
    IF offset + 4 > Len(data) THEN Err("BorshIo")
    ELSE LET len == u32_from_le_bytes(Slice(data, offset, offset + 4))
         IN  IF len >= U32Sat \/ offset + 4 + len > Len(data) THEN Err("BorshIo")
             ELSE Ok([val |-> Slice(data, offset + 4, offset + 4 + len),
                      next |-> offset + 4 + len])

\* SP1Groth16Proof::try_from_slice (example/program): two Vec<u8>.
SP1Groth16Proof_try_from_slice(data) ==
    LET proof == borsh_vec_u8(data, 0)
    IN  IF ~IsOk(proof) THEN proof
        ELSE LET inputs == borsh_vec_u8(data, proof.val.next)
             IN  IF ~IsOk(inputs) THEN inputs
                 ELSE IF inputs.val.next # Len(data) THEN Err("BorshIo")
                 ELSE Ok([proof |-> proof.val.val,
                          sp1_public_inputs |-> inputs.val.val])

(***************************************************************************)
(* The embedded verification key (GROTH16_VK_BYTES, an include_bytes! of   *)
(* a file outside the sources): a well-formed key buffer of the toy curve  *)
(* with three k points and one commitment group of one index.              *)
(***************************************************************************)
CompressedG1(v) == <<129>> \o Zeros(30) \o <<v>>
CompressedG2(v1, v0) == <<129>> \o Zeros(30) \o <<v1>> \o Zeros(31) \o <<v0>>

GROTH16_VK_BYTES ==
    CompressedG1(2) \o CompressedG1(3) \o CompressedG2(4, 5) \o CompressedG2(6, 8)
    \o CompressedG1(9) \o CompressedG2(10, 11)
    \o <<0, 0, 0, 3>> \o CompressedG1(16) \o CompressedG1(13) \o CompressedG1(18)
    \o <<0, 0, 0, 1>> \o <<0, 0, 0, 1>> \o <<0, 0, 0, 2>>

(***************************************************************************)
(* The example on-chain programs.  Each returns its own result and the     *)
(* run of the verification it made (NoVerification when it made none).     *)
(***************************************************************************)
NoVerification == Run(NotRun, <<>>, NotHanded, NotRun)
Outcome(result, run) == [result |-> result, verification |-> run]

\* example/solana/program: the verification result is logged and dropped.
process_instruction_fixture(instruction_data, mode) ==
    Bind(SP1ProofFixture_try_from_slice(instruction_data), LAMBDA fixture :
    IF ~IsOk(fixture) THEN Outcome(Panic, NoVerification) ELSE
    Bind(verify_proof_fixture(fixture.val, GROTH16_VK_BYTES, mode), LAMBDA run :
    IF run.result.tag = "Panic" THEN Outcome(Panic, run)
    ELSE Outcome(Ok("unit"), run)))

\* example/program: verify_proof against FIBONACCI_VKEY_HASH, then the three
\* u32 of the public values are read with unwrap().
process_instruction(instruction_data, mode) ==
    Bind(SP1Groth16Proof_try_from_slice(instruction_data), LAMBDA groth16_proof :
    IF ~IsOk(groth16_proof)
    THEN Outcome(Err("InvalidInstructionData"), NoVerification) ELSE
    Bind(verify_proof(groth16_proof.val.proof, groth16_proof.val.sp1_public_inputs,
                      FIBONACCI_VKEY_HASH, GROTH16_VK_BYTES, mode), LAMBDA run :
    IF run.result.tag = "Panic" THEN Outcome(Panic, run)
    ELSE IF ~IsOk(run.result) THEN Outcome(Err("InvalidInstructionData"), run)
    ELSE IF Len(groth16_proof.val.sp1_public_inputs) < 12 THEN Outcome(Panic, run)
    ELSE Outcome(Ok("unit"), run)))

(***************************************************************************)
(* Inputs.  Uncompressed points of the toy curve, proofs A || B || C, SP1  *)
(* public values and vkey hashes.                                          *)
(***************************************************************************)
UncompressedG1(v) ==
    LET x == Zeros(31) \o <<v>> IN x \o CurveY(x)
UncompressedG2(v1, v0) ==
    LET x1 == Zeros(31) \o <<v1>>
        x0 == Zeros(31) \o <<v0>>
    IN  x1 \o x0 \o CurveY(x1) \o CurveY(x0)

\* The proof whose C has discrete logarithm r (the identity for r = 0).
ProofWithC(r) ==
    UncompressedG1(1) \o UncompressedG2(2, 3)
    \o (IF r = 0 THEN Zeros(64) ELSE UncompressedG1(r - 1))

GarbageProof == [i \in 1..256 |-> 255]
ShortProof == [i \in 1..100 |-> 1]
Proofs == {ProofWithC(r) : r \in 0..(PairingOrder - 1)} \cup {GarbageProof}

\* (n = 20, a = 6765, b = 10946) as three little-endian u32.
FibonacciPublicValues == <<20, 0, 0, 0, 109, 26, 0, 0, 194, 42, 0, 0>>
TamperedPublicValues == [FibonacciPublicValues EXCEPT ![5] = 111]
ShortPublicValues == <<20, 0, 0, 0>>
PublicValues == {FibonacciPublicValues, TamperedPublicValues, ShortPublicValues}

FibonacciVkeyHash == decode_sp1_vkey_hash(FIBONACCI_VKEY_HASH).val
OtherVkeyHash == [FibonacciVkeyHash EXCEPT ![32] = 115]
VkeyHashes == {FibonacciVkeyHash, OtherVkeyHash}

Prefix0x(str) == <<"0", "x">> \o str
VkeyHashStrings ==
    {Prefix0x(hex_encode(h)) : h \in VkeyHashes}
    \cup {Prefix0x(hex_encode(Slice(FibonacciVkeyHash, 0, 31))),
          Prefix0x(<<"z", "z">>), <<"0">>}

\* Key buffers: the embedded key, a key with a flag of 00 on alpha, a key
\* cut inside its k points, an empty buffer.
BadFlagVk == [GROTH16_VK_BYTES EXCEPT ![1] = 1]
TruncatedVk == Slice(GROTH16_VK_BYTES, 0, 300)
\* A well-formed key with two k points instead of three.
TwoKVk ==
    Slice(GROTH16_VK_BYTES, 0, 288) \o <<0, 0, 0, 2>>
    \o CompressedG1(16) \o CompressedG1(13) \o <<0, 0, 0, 0>>
VkBuffers == {GROTH16_VK_BYTES, BadFlagVk, TruncatedVk, TwoKVk, <<>>}

\* Flipping bit k of a byte, and bit k of byte number `offset` of a string.
FlipBit(b, k) == IF (b \div (2 ^ k)) % 2 = 1 THEN b - 2 ^ k ELSE b + 2 ^ k
FlipAt(bytes, offset, k) == [bytes EXCEPT ![offset + 1] = FlipBit(@, k)]
Bits == 0..7

\* Proof buffers for the loader alone: also an A whose coordinates are not
\* reduced, an A with y = 0 and an A whose y has a small negation.
UnreducedA == [i \in 1..64 |-> 255] \o UncompressedG2(2, 3) \o UncompressedG1(1)
ZeroYA == Zeros(31) \o <<1>> \o Zeros(32) \o UncompressedG2(2, 3) \o UncompressedG1(1)
LargeYA ==
    Zeros(31) \o <<1>> \o SubBE(FqModulus, Zeros(31) \o <<2>>)
    \o UncompressedG2(2, 3) \o UncompressedG1(1)
\* A proof followed by two more bytes, and buffers cut inside A and inside C
\* (ShortProof is cut inside B).
LongProof == ProofWithC(3) \o <<9, 9>>
CutInA == Slice(ProofWithC(3), 0, 40)
CutInC == Slice(ProofWithC(3), 0, 255)
\* ProofWithC(3) with the x coordinate of A written as x + p.
AliasedA == [FqModulus EXCEPT ![32] = @ + 1] \o SubSeq(ProofWithC(3), 33, 256)
ProofBuffers ==
    Proofs \cup {ShortProof, UnreducedA, ZeroYA, LargeYA, LongProof, CutInA, CutInC,
                 AliasedA}

HashInputs == PublicValues \cup {[i \in 1..64 |-> 255], <<>>}

\* The 63-byte public inputs of verify_proof_raw, and a buffer of another
\* length.
RawPublicInputs ==
    {groth16_public_values(h, P) :
        h \in VkeyHashes, P \in {FibonacciPublicValues, TamperedPublicValues}}
    \cup {Zeros(10)}

\* Fixtures: the committed inputs, the key fingerprint and the optional SP1
\* public inputs are independent fields of the structure.
Fingerprint(vk) == Slice(Sha256(vk), 0, 4)
FixtureProofs == {ProofWithC(0), ProofWithC(4), ProofWithC(6), GarbageProof}
Fixtures ==
    [proof : FixtureProofs,
     public_inputs : {groth16_public_values(FibonacciVkeyHash, P) :
                         P \in {FibonacciPublicValues, TamperedPublicValues}},
     groth16_vkey_hash : {Fingerprint(GROTH16_VK_BYTES), Zeros(4)},
     sp1_public_inputs : {None, Some(FibonacciPublicValues),
                          Some(TamperedPublicValues)}]

\* Instruction data of the two example programs.
u32_to_le_bytes(n) ==
    <<n % 256, (n \div 256) % 256, (n \div 65536) % 256, (n \div 16777216) % 256>>
borsh_of_vec_u8(v) == u32_to_le_bytes(Len(v)) \o v
FixtureInstructionData ==
    {f.proof \o f.public_inputs \o f.groth16_vkey_hash :
        f \in {g \in Fixtures : ~g.sp1_public_inputs.some}}
    \cup {<<1, 2, 3>>}
InstructionData ==
    {borsh_of_vec_u8(p) \o borsh_of_vec_u8(P) :
        p \in Proofs \cup {ShortProof}, P \in PublicValues}
    \cup {<<1, 2, 3>>}

\* Byte offsets of the key buffer at which a bit is flipped: in the two
\* regions the loader passes over and in the commitment-group index bytes,
\* in the points that are read, in the number of k points and in the size
\* of the commitment group.
SkippedVkOffsets == {32, 63, 192, 223, 396, 399}
PointVkOffsets == {0, 31, 64, 128, 224, 292}
CountVkOffsets == {291, 395}
VkFlipOffsets == SkippedVkOffsets \cup PointVkOffsets \cup CountVkOffsets
HashFlipOffsets == {0, 1, 16, 31}

\* Key buffers for the loader alone: the header of the embedded key, then
\* the k points with the given x values, then commitment groups of the
\* given sizes, each index word holding its position.
u32_to_be_bytes(n) == Reverse(u32_to_le_bytes(n))

RECURSIVE KPoints(_)
KPoints(xs) ==
    IF xs = <<>> THEN <<>> ELSE CompressedG1(Head(xs)) \o KPoints(Tail(xs))

RECURSIVE IndexWords(_)
IndexWords(m) ==
    IF m = 0 THEN <<>> ELSE IndexWords(m - 1) \o u32_to_be_bytes(m - 1)

RECURSIVE CommitmentGroups(_)
CommitmentGroups(sizes) ==
    IF sizes = <<>> THEN <<>>
    ELSE u32_to_be_bytes(Head(sizes)) \o IndexWords(Head(sizes))
         \o CommitmentGroups(Tail(sizes))

VkWith(xs, sizes) ==
    Slice(GROTH16_VK_BYTES, 0, 288)
    \o u32_to_be_bytes(Len(xs)) \o KPoints(xs)
    \o u32_to_be_bytes(Len(sizes)) \o CommitmentGroups(sizes)

\* The length the parse of a key with these k points and groups requires.
RECURSIVE SumGroupWords(_)
SumGroupWords(sizes) ==
    IF sizes = <<>> THEN 0 ELSE 1 + Head(sizes) + SumGroupWords(Tail(sizes))
RequiredVkLen(num_k, sizes) == 292 + 32 * num_k + 4 + 4 * SumGroupWords(sizes)

KXs == {<<>>, <<16>>, <<16, 13, 18>>, <<16, 13, 18, 20>>}
GroupSizes == {<<>>, <<1>>, <<2, 0>>}
WellFormedVks == {VkWith(xs, sizes) : xs \in KXs, sizes \in GroupSizes}

\* The embedded key (three k points, one group of one index, 400 bytes) cut
\* inside the header, inside the k points, inside the group count, inside
\* the group size and inside the index word.
VkCuts == {0, 31, 100, 290, 300, 390, 394, 396, 398}
TruncatedVks == {Slice(GROTH16_VK_BYTES, 0, n) : n \in VkCuts}
VkLoadBuffers == WellFormedVks \cup TruncatedVks \cup {BadFlagVk}

\* Strings for decode_sp1_vkey_hash: "0x" and the hex of a byte string of 0,
\* 1, 31, 32 or 33 bytes, in lower and in upper case (encoded holds the
\* bytes), and strings that are not of that form (encoded is None): empty,
\* one character, no "0x" in front of 64 hex characters, another prefix,
\* non-hex characters, an odd number of hex characters.
hex_encode_upper(bytes) ==
    [i \in 1..(2 * Len(bytes)) |->
        IF i % 2 = 1 THEN HexUpper[(bytes[(i + 1) \div 2] \div 16) + 1]
        ELSE HexUpper[(bytes[i \div 2] % 16) + 1]]

DecodeBytes ==
    VkeyHashes
    \cup {[i \in 1..32 |-> 255 - i], [i \in 1..32 |-> 171],
          Slice(FibonacciVkeyHash, 0, 31), [i \in 1..31 |-> 171],
          FibonacciVkeyHash \o <<7>>, <<171>>, <<>>}

NoPrefixHash == <<"a", "b">> \o hex_encode(FibonacciVkeyHash)
DecodeInputs ==
    {[str |-> Prefix0x(hex_encode(b)), encoded |-> Some(b)] : b \in DecodeBytes}
    \cup {[str |-> Prefix0x(hex_encode_upper(b)), encoded |-> Some(b)] :
             b \in DecodeBytes}
    \cup {[str |-> s, encoded |-> None] :
             s \in {<<>>, <<"0">>, <<"x">>, NoPrefixHash,
                    hex_encode(FibonacciVkeyHash),
                    <<"0", "X">> \o hex_encode(FibonacciVkeyHash),
                    Prefix0x([hex_encode(FibonacciVkeyHash) EXCEPT ![10] = "g"]),
                    Prefix0x([hex_encode(FibonacciVkeyHash) EXCEPT ![64] = " "]),
                    Prefix0x(<<"z", "z">>),
                    Prefix0x(SubSeq(hex_encode(FibonacciVkeyHash), 1, 63))}}

(***************************************************************************)
(* SP1ProofFixture::save and ::load: the Borsh encoding of the structure   *)
(* written to and read from a file.  Version "fixture" is the structure of *)
(* fixture.rs (with sp1_public_inputs: Option<Vec<u8>>), version "lib" the *)
(* structure of lib.rs (three fixed arrays).  Fixed arrays are written as  *)
(* their bytes, an Option as a tag byte 0 or 1, a Vec as a little-endian   *)
(* u32 length and its bytes.  from_reader fails unless it consumes the     *)
(* whole file.                                                             *)
(***************************************************************************)
borsh_option_vec_u8(o) ==
    IF o.some THEN <<1>> \o borsh_of_vec_u8(o.val) ELSE <<0>>

SP1ProofFixture_serialize_be_length(version, fixture) ==
    fixture.proof \o fixture.public_inputs \o fixture.groth16_vkey_hash
    \o (IF version = "lib" THEN <<>>
        ELSE IF fixture.sp1_public_inputs.some
        THEN <<1>> \o u32_to_be_bytes(Len(fixture.sp1_public_inputs.val))
             \o fixture.sp1_public_inputs.val
        ELSE <<0>>)

SP1ProofFixture_serialize(version, fixture) ==
    fixture.proof \o fixture.public_inputs \o fixture.groth16_vkey_hash
    \o (IF version = "lib" THEN <<>>
        ELSE borsh_option_vec_u8(fixture.sp1_public_inputs))

SP1ProofFixture_from_reader(version, data) ==
    IF version = "lib" THEN MapErr(SP1ProofFixture_try_from_slice(data),
                                   "BorshDeserializeError")
    ELSE IF Len(data) < 256 + 63 + 4 + 1 THEN Err("BorshDeserializeError")
    ELSE IF data[324] = 0
    THEN IF Len(data) # 324 THEN Err("BorshDeserializeError")
         ELSE Ok([proof |-> Slice(data, 0, 256),
                  public_inputs |-> Slice(data, 256, 319),
                  groth16_vkey_hash |-> Slice(data, 319, 323),
                  sp1_public_inputs |-> None])
    ELSE IF data[324] = 1
    THEN Bind(borsh_vec_u8(data, 324), LAMBDA v :
         IF ~IsOk(v) \/ v.val.next # Len(data) THEN Err("BorshDeserializeError")
         ELSE Ok([proof |-> Slice(data, 0, 256),
                  public_inputs |-> Slice(data, 256, 319),
                  groth16_vkey_hash |-> Slice(data, 319, 323),
                  sp1_public_inputs |-> Some(v.val.val)]))
    ELSE Err("BorshDeserializeError")

\* Fixtures to save: sp1_public_inputs absent, empty, short, and longer than
\* 255 bytes (so that the second byte of the length is used).
LongPublicValues == [i \in 1..300 |-> i % 251]
SavedFixtures ==
    [version : {"fixture"},
     fixture : [proof : {ProofWithC(4), GarbageProof},
                public_inputs : {groth16_public_values(FibonacciVkeyHash, P) :
                                    P \in {FibonacciPublicValues, TamperedPublicValues}},
                groth16_vkey_hash : {Fingerprint(GROTH16_VK_BYTES), <<255, 0, 1, 2>>},
                sp1_public_inputs : {None, Some(<<>>), Some(FibonacciPublicValues),
                                     Some(LongPublicValues)}]]
    \cup
    [version : {"lib"},
     fixture : [proof : {ProofWithC(4), GarbageProof},
                public_inputs : {groth16_public_values(FibonacciVkeyHash, P) :
                                    P \in {FibonacciPublicValues, TamperedPublicValues}},
                groth16_vkey_hash : {Fingerprint(GROTH16_VK_BYTES), <<255, 0, 1, 2>>},
                sp1_public_inputs : {None}]]

(***************************************************************************)
(* Compressed points handed to decompress_g1 (32 bytes) and decompress_g2  *)
(* (64 bytes): each gnark flag pattern, an x without a point, an x of p or *)
(* more, and coordinates whose bytes are not a palindrome.                 *)
(***************************************************************************)
CompressedPoints ==
    LET x == <<5>> \o [i \in 1..31 |-> (7 * i) % 256]
        noRoot == <<5>> \o Zeros(30) \o <<15>>
        tooLarge == <<63>> \o [i \in 1..31 |-> 255]
        flagged(f, v) == [v EXCEPT ![1] = BitOr(@, Shl(f, 6))]
    IN  {CompressedG1(16), CompressedG2(2, 3)}
        \cup {flagged(f, v) : f \in 0..3, v \in {x, x \o x, x \o noRoot}}
        \cup {flagged(f, v) : f \in 2..3, v \in {noRoot, tooLarge, tooLarge \o x}}

(***************************************************************************)
(* The arkworks-style path of src/src/lib.rs over the bn crate.  G1, G2    *)
(* and Gt are the same toy groups as above, an element written as its      *)
(* logarithm modulo PairingOrder; Fr scalars are integers.  pairing is the *)
(* product of the logarithms and pairing_batch the sum of the products.    *)
(* final_exponentiation is None only for a Miller-loop value of zero,      *)
(* which no pair of group elements produces.                               *)
(***************************************************************************)
G1Add(a, b) == (a + b) % PairingOrder
G1Mul(b, i) == (b * i) % PairingOrder
GroupNeg(a) == (PairingOrder - a) % PairingOrder
pairing(a, b) == (a * b) % PairingOrder

RECURSIVE pairing_batch(_)
pairing_batch(pairs) ==
    IF pairs = <<>> THEN 0
    ELSE (pairing(Head(pairs)[1], Head(pairs)[2]) + pairing_batch(Tail(pairs)))
         % PairingOrder

final_exponentiation(qap) == Some(qap)

process_vk_gamma_not_negated(vk) ==
    Ok([vk |-> vk,
        alpha_g1_beta_g2 |-> pairing(vk.g1.alpha, vk.g2.beta),
        gamma_g2_neg_pc |-> vk.g2.gamma,
        delta_g2_neg_pc |-> GroupNeg(vk.g2.delta)])

process_vk(vk) ==
    Ok([vk |-> vk,
        alpha_g1_beta_g2 |-> pairing(vk.g1.alpha, vk.g2.beta),
        gamma_g2_neg_pc |-> GroupNeg(vk.g2.gamma),
        delta_g2_neg_pc |-> GroupNeg(vk.g2.delta)])

\* public_inputs.iter().zip(k.iter().skip(1)).fold(k[0], |acc, (i, b)| acc + b * i)
RECURSIVE FoldInputs(_, _, _, _)
FoldInputs(acc, public_inputs, k, n) ==
    IF n > Len(public_inputs) \/ n + 1 > Len(k) THEN acc
    ELSE FoldInputs(G1Add(acc, G1Mul(k[n + 1], public_inputs[n])),
                    public_inputs, k, n + 1)

RECURSIVE FoldInputsNoSkip(_, _, _, _)
FoldInputsNoSkip(acc, public_inputs, k, n) ==
    IF n > Len(public_inputs) \/ n > Len(k) THEN acc
    ELSE FoldInputsNoSkip(G1Add(acc, G1Mul(k[n], public_inputs[n])),
                          public_inputs, k, n + 1)

prepare_inputs_without_skip(pvk, public_inputs) ==
    IF Len(public_inputs) + 1 # Len(pvk.vk.g1.k)
    THEN Err("PrepareInputsFailed")
    ELSE Ok(FoldInputsNoSkip(pvk.vk.g1.k[1], public_inputs, pvk.vk.g1.k, 1))

prepare_inputs(pvk, public_inputs) ==
    IF Len(public_inputs) + 1 # Len(pvk.vk.g1.k)
    THEN Err("PrepareInputsFailed")
    ELSE Ok(FoldInputs(pvk.vk.g1.k[1], public_inputs, pvk.vk.g1.k, 1))

verify_groth16(vk, proof, public_inputs) ==
    Try(process_vk(vk), LAMBDA pvk :
    Try(prepare_inputs(pvk, public_inputs), LAMBDA l :
    LET qap == pairing_batch(<< <<proof.ar, proof.bs>>,
                                <<l, pvk.gamma_g2_neg_pc>>,
                                <<proof.krs, pvk.delta_g2_neg_pc>> >>)
        exp == final_exponentiation(qap)
    IN  IF ~exp.some THEN Err("UnexpectedIdentity")
        ELSE Ok(exp.val = pvk.alpha_g1_beta_g2)))

\* Scalars and points for prepare_inputs: up to MaxInputs inputs against up
\* to MaxInputs + 1 points.
MaxInputs == 3
SeqsUpTo(S, n) == UNION {[1..m -> S] : m \in 0..n}
FrSamples == {0, 2, 5}
G1Samples == {1, 3, 6}

\* The typed arguments of verify_groth16 for a proof and a loaded key given
\* as bytes: every point as the group element it encodes, every 32-byte
\* input as a scalar.  AffineG1 and AffineG2 hold no identity and no
\* invalid point.
IsAffine(g) == g # -1 /\ g # 0
Groth16ProofOf(proof_bytes) ==
    [ar |-> G1Dlog(Slice(proof_bytes, 0, 64)),
     bs |-> G2Dlog(Slice(proof_bytes, 64, 192)),
     krs |-> G1Dlog(Slice(proof_bytes, 192, 256))]
Groth16VerifyingKeyOf(vk) ==
    [g1 |-> [alpha |-> G1Dlog(vk.vk_alpha_g1),
             k |-> [i \in 1..Len(vk.vk_ic) |-> G1Dlog(vk.vk_ic[i])]],
     g2 |-> [beta |-> G2Dlog(vk.vk_beta_g2),
             gamma |-> G2Dlog(vk.vk_gamma_g2),
             delta |-> G2Dlog(vk.vk_delta_g2)]]
FrOf(public_inputs) ==
    [i \in 1..Len(public_inputs) |-> BytesMod(public_inputs[i], PairingOrder)]

TypedProofs ==
    {p \in Proofs :
        LET t == Groth16ProofOf(p)
        IN  IsAffine(t.ar) /\ IsAffine(t.bs) /\ IsAffine(t.krs)}
TypedVks ==
    {b \in VkBuffers :
        /\ IsOk(load_groth16_verifying_key_from_bytes(b))
        /\ LET t == Groth16VerifyingKeyOf(load_groth16_verifying_key_from_bytes(b).val)
           IN  /\ IsAffine(t.g1.alpha) /\ IsAffine(t.g2.beta)
               /\ IsAffine(t.g2.gamma) /\ IsAffine(t.g2.delta)
               /\ \A i \in 1..Len(t.g1.k) : IsAffine(t.g1.k[i])}

(***************************************************************************)
(* Conversion of an SP1 proof (fixture.rs, lib.rs, extract.rs).  A BigUint *)
(* is its big-endian bytes without leading zeros, zero being the empty     *)
(* sequence.  The proof's public inputs are decimal strings.               *)
(***************************************************************************)
RECURSIVE StripZeros(_)
StripZeros(bytes) ==
    IF bytes # <<>> /\ Head(bytes) = 0 THEN StripZeros(Tail(bytes)) ELSE bytes

\* n * m + c for a small m and c.
RECURSIVE MulAdd(_, _, _)
MulAdd(n, m, c) ==
    IF n = <<>> THEN (IF c = 0 THEN <<>> ELSE MulAdd(n, m, c \div 256) \o <<c % 256>>)
    ELSE LET v == n[Len(n)] * m + c
         IN  MulAdd(SubSeq(n, 1, Len(n) - 1), m, v \div 256) \o <<v % 256>>

\* <<quotient, remainder>> of the bytes (with rem in front) divided by ten.
RECURSIVE DivRemTen(_, _)
DivRemTen(bytes, rem) ==
    IF bytes = <<>> THEN <<<<>>, rem>>
    ELSE LET v == rem * 256 + Head(bytes)
             rest == DivRemTen(Tail(bytes), v % 10)
         IN  << <<v \div 10>> \o rest[1], rest[2] >>

\* The decimal string of a number, as the prover writes its public inputs.
RECURSIVE DecimalDigits(_)
DecimalDigits(n) ==
    IF n = <<>> THEN <<>>
    ELSE LET qr == DivRemTen(n, 0)
         IN  DecimalDigits(StripZeros(qr[1])) \o <<HexLower[qr[2] + 1]>>
to_str_radix_10(bytes) ==
    IF StripZeros(bytes) = <<>> THEN <<"0">> ELSE DecimalDigits(StripZeros(bytes))

\* BigUint::from_str_radix(s, 10).unwrap()
\* Read four digits at a time, as the value of the digits before them times
\* 10^4 plus the value of the four.
RECURSIVE SmallDecimal(_)
SmallDecimal(s) ==
    IF s = <<>> THEN 0
    ELSE 10 * SmallDecimal(SubSeq(s, 1, Len(s) - 1)) + HexVal(s[Len(s)])

RECURSIVE BigUint_from_str_radix_10(_)
BigUint_from_str_radix_10(s) ==
    IF Len(s) <= 4 THEN MulAdd(<<>>, 1, SmallDecimal(s))
    ELSE MulAdd(BigUint_from_str_radix_10(SubSeq(s, 1, Len(s) - 4)), 10000,
                SmallDecimal(SubSeq(s, Len(s) - 3, Len(s))))

\* BigUint::to_bytes_be
to_bytes_be(n) == IF n = <<>> THEN <<0>> ELSE n

\* SP1ProofFixture::from_sp1 (fixture.rs) and From<SP1ProofWithPublicValues>
\* (lib.rs, no sp1_public_inputs field); unwrap and a slice out of range
\* panic.
SP1ProofFixture_from_sp1(version, sp1_proof_with_public_values, use_public_values) ==
    LET proof == sp1_proof_with_public_values.proof
        raw_proof == hex_decode(proof.raw_proof)
        vkey_hash == to_bytes_be(BigUint_from_str_radix_10(proof.public_inputs[1]))
        committed_values_digest ==
            to_bytes_be(BigUint_from_str_radix_10(proof.public_inputs[2]))
        public_inputs == vkey_hash \o committed_values_digest
    IN  IF ~IsOk(raw_proof) THEN Panic
        ELSE IF Len(raw_proof.val) < 256 THEN Panic
        ELSE IF Len(public_inputs) # 63 THEN Panic
        ELSE IF Len(proof.groth16_vkey_hash) < 4 THEN Panic
        ELSE Ok([proof |-> Slice(raw_proof.val, 0, 256),
                 public_inputs |-> public_inputs,
                 groth16_vkey_hash |-> Slice(proof.groth16_vkey_hash, 0, 4),
                 sp1_public_inputs |->
                     IF version = "fixture" /\ use_public_values
                     THEN Some(sp1_proof_with_public_values.public_values)
                     ELSE None])

commited_values_digest(fixture) == Slice(fixture.public_inputs, 31, 63)
SP1ProofFixture_vkey_hash(fixture) == hex_encode(<<0>> \o Slice(fixture.public_inputs, 0, 31))

extract_groth16_components(sp1_proof_with_public_values) ==
    LET proof == sp1_proof_with_public_values.proof
        vkey_hash == to_bytes_be(BigUint_from_str_radix_10(proof.public_inputs[1]))
        padded_vkey_hash == <<0>> \o vkey_hash
    IN  IF Len(padded_vkey_hash) < 32 THEN Panic
        ELSE Ok(<<sp1_proof_with_public_values.bytes,
                  sp1_proof_with_public_values.public_values,
                  Slice(padded_vkey_hash, 0, 32)>>)

\* SP1 proofs: a vkey hash below 2^248 and the digest of the public values,
\* both as decimal strings; among them a vkey hash below 2^240, a vkey hash
\* of zero and a digest below 2^248.
LeadingZeroPublicValues == <<45, 0, 0, 0>>
SP1VkeyHashes ==
    {Slice(FibonacciVkeyHash, 1, 32),
     <<0>> \o Slice(FibonacciVkeyHash, 2, 32),
     [i \in 1..31 |-> 0]}
SP1Proofs ==
    {[proof |-> [raw_proof |-> hex_encode(ProofWithC(4)),
                 public_inputs |-> <<to_str_radix_10(h),
                                     to_str_radix_10(hash_public_inputs(P))>>,
                 groth16_vkey_hash |-> Sha256(GROTH16_VK_BYTES)],
      public_values |-> P,
      bytes |-> Fingerprint(GROTH16_VK_BYTES) \o ProofWithC(4)] :
        h \in SP1VkeyHashes,
        P \in {FibonacciPublicValues, TamperedPublicValues, LeadingZeroPublicValues}}

(***************************************************************************)
(* The state: the entry point that ran last (op), its arguments (call),    *)
(* what it returned (out) and, for a call repeated with one bit of an      *)
(* accepted input flipped, the accepted call it was derived from (base).   *)
(***************************************************************************)
VARIABLES op, call, out, base

vars == <<op, call, out, base>>

NoBase == [some |-> FALSE]
FlippedFrom(field, offset, bit) ==
    [some |-> TRUE, field |-> field, offset |-> offset, bit |-> bit,
     call |-> call, out |-> out]

Init ==
    /\ op = "idle"
    /\ call = <<>>
    /\ out = <<>>
    /\ base = NoBase

Returned(name, args, result) ==
    /\ op' = name
    /\ call' = args
    /\ out' = result
    /\ base' = NoBase

GnarkFlagToArkFlag ==
    /\ op = "idle"
    /\ \E msb \in Byte :
        Returned("gnark_flag_to_ark_flag", [msb |-> msb],
                 gnark_flag_to_ark_flag(msb))

HashPublicInputs ==
    /\ op = "idle"
    /\ \E x \in HashInputs :
        Returned("hash_public_inputs", [public_inputs |-> x],
                 hash_public_inputs(x))

Groth16PublicValues ==
    /\ op = "idle"
    /\ \E h \in VkeyHashes, P \in PublicValues :
        Returned("groth16_public_values",
                 [sp1_vkey_hash |-> h, sp1_public_inputs |-> P],
                 groth16_public_values(h, P))

\* The buffer groth16_public_values built is what verify_proof_raw loads.
LoadPublicInputsFromBytes ==
    /\ op = "groth16_public_values"
    /\ Returned("load_public_inputs_from_bytes",
                [sp1_vkey_hash |-> call.sp1_vkey_hash,
                 sp1_public_inputs |-> call.sp1_public_inputs,
                 buffer |-> out],
                load_public_inputs_from_bytes(out))

LoadProofFromBytes ==
    /\ op = "idle"
    /\ \E buffer \in ProofBuffers :
        Returned("load_proof_from_bytes", [buffer |-> buffer],
                 load_proof_from_bytes(buffer))

VerifyProofRaw ==
    /\ op = "idle"
    /\ \E proof \in Proofs \cup {ShortProof}, inputs \in RawPublicInputs,
          vk \in VkBuffers, mode \in EngineModes :
        Returned("verify_proof_raw",
                 [proof |-> proof, public_inputs |-> inputs, vk |-> vk,
                  mode |-> mode],
                 verify_proof_raw(proof, inputs, vk, mode))

VerifyProofFixture ==
    /\ op = "idle"
    /\ \E fixture \in Fixtures, vk \in VkBuffers, mode \in EngineModes :
        Returned("verify_proof_fixture",
                 [fixture |-> fixture, vk |-> vk, mode |-> mode],
                 verify_proof_fixture(fixture, vk, mode))

VerifyProof ==
    /\ op = "idle"
    /\ \E proof \in Proofs \cup {ShortProof}, P \in PublicValues,
          h \in VkeyHashStrings, vk \in VkBuffers, mode \in EngineModes :
        Returned("verify_proof",
                 [proof |-> proof, sp1_public_inputs |-> P,
                  sp1_vkey_hash |-> h, vk |-> vk, mode |-> mode],
                 verify_proof(proof, P, h, vk, mode))

\* verify_proof again, on an accepted input with one bit of the 32-byte
\* sp1_vkey_hash flipped.
VerifyProofFlippedVkeyHash ==
    /\ op = "verify_proof"
    /\ ~base.some
    /\ IsOk(out.result)
    /\ \E offset \in HashFlipOffsets, bit \in Bits :
        LET h == decode_sp1_vkey_hash(call.sp1_vkey_hash).val
            flipped == Prefix0x(hex_encode(FlipAt(h, offset, bit)))
        IN  /\ op' = op
            /\ call' = [call EXCEPT !.sp1_vkey_hash = flipped]
            /\ out' = verify_proof(call.proof, call.sp1_public_inputs, flipped,
                                   call.vk, call.mode)
            /\ base' = FlippedFrom("sp1_vkey_hash", offset, bit)

\* verify_proof or verify_proof_raw again, on an accepted input with one
\* bit of the key buffer flipped.
VerifyProofFlippedVk ==
    /\ op \in {"verify_proof", "verify_proof_raw"}
    /\ ~base.some
    /\ IsOk(out.result)
    /\ \E offset \in VkFlipOffsets, bit \in Bits :
        LET flipped == FlipAt(call.vk, offset, bit)
        IN  /\ op' = op
            /\ call' = [call EXCEPT !.vk = flipped]
            /\ out' = IF op = "verify_proof"
                      THEN verify_proof(call.proof, call.sp1_public_inputs,
                                        call.sp1_vkey_hash, flipped, call.mode)
                      ELSE verify_proof_raw(call.proof, call.public_inputs,
                                            flipped, call.mode)
            /\ base' = FlippedFrom("vk", offset, bit)

ProcessInstructionFixture ==
    /\ op = "idle"
    /\ \E instruction_data \in FixtureInstructionData, mode \in EngineModes :
        Returned("process_instruction_fixture",
                 [instruction_data |-> instruction_data, mode |-> mode],
                 process_instruction_fixture(instruction_data, mode))

ProcessInstruction ==
    /\ op = "idle"
    /\ \E instruction_data \in InstructionData, mode \in EngineModes :
        Returned("process_instruction",
                 [instruction_data |-> instruction_data, mode |-> mode],
                 process_instruction(instruction_data, mode))

LoadGroth16VerifyingKeyFromBytes ==
    /\ op = "idle"
    /\ \E buffer \in VkLoadBuffers :
        Returned("load_groth16_verifying_key_from_bytes", [buffer |-> buffer],
                 load_groth16_verifying_key_from_bytes(buffer))

DecodeSp1VkeyHash ==
    /\ op = "idle"
    /\ \E input \in DecodeInputs :
        Returned("decode_sp1_vkey_hash",
                 [sp1_vkey_hash |-> input.str, encoded |-> input.encoded],
                 decode_sp1_vkey_hash(input.str))

\* SP1ProofFixture::save: the file holds the encoding of the fixture.
SaveFixture ==
    /\ op = "idle"
    /\ \E f \in SavedFixtures :
        Returned("SP1ProofFixture::save",
                 [version |-> f.version, fixture |-> f.fixture],
                 SP1ProofFixture_serialize(f.version, f.fixture))

\* SP1ProofFixture::load of the file that save wrote.
LoadFixture ==
    /\ op = "SP1ProofFixture::save"
    /\ Returned("SP1ProofFixture::load",
                [version |-> call.version, fixture |-> call.fixture, file |-> out],
                SP1ProofFixture_from_reader(call.version, out))

\* decompress_g1 / decompress_g2, with the buffer passed to the primitive.
DecompressG1 ==
    /\ op = "idle"
    /\ \E g1_bytes \in {b \in CompressedPoints : Len(b) = 32} :
        Returned("decompress_g1", [bytes |-> g1_bytes],
                 [handed |-> decompress_g1_input(g1_bytes),
                  result |-> decompress_g1(g1_bytes)])

DecompressG2 ==
    /\ op = "idle"
    /\ \E g2_bytes \in {b \in CompressedPoints : Len(b) = 64} :
        Returned("decompress_g2", [bytes |-> g2_bytes],
                 [handed |-> decompress_g2_input(g2_bytes),
                  result |-> decompress_g2(g2_bytes)])

\* negate_g1 on the first 64 bytes of a proof buffer, and negate_g1 again on
\* what it returned.
NegateG1 ==
    /\ op = "idle"
    /\ \E buffer \in {b \in ProofBuffers : Len(b) >= 64} :
        Returned("negate_g1", [g1_bytes |-> Slice(buffer, 0, 64)],
                 negate_g1(Slice(buffer, 0, 64)))

NegateG1Again ==
    /\ op = "negate_g1"
    /\ IsOk(out)
    /\ op' = "negate_g1 of negate_g1"
    /\ out' = negate_g1(out.val)
    /\ UNCHANGED <<call, base>>

\* prepare_inputs on a processed key with the points k.
PrepareInputs ==
    /\ op = "idle"
    /\ \E k \in SeqsUpTo(G1Samples, MaxInputs + 1),
          public_inputs \in SeqsUpTo(FrSamples, MaxInputs) :
        LET vk == [g1 |-> [alpha |-> 1, k |-> k],
                   g2 |-> [beta |-> 1, gamma |-> 1, delta |-> 1]]
        IN  Returned("prepare_inputs", [k |-> k, public_inputs |-> public_inputs],
                     prepare_inputs(process_vk(vk).val, public_inputs))

\* verify_groth16 on the points and scalars a proof, a key and the public
\* inputs encode, next to verify_proof_raw on the bytes.
VerifyGroth16 ==
    /\ op = "idle"
    /\ \E proof \in TypedProofs, vk \in TypedVks, mode \in EngineModes,
          inputs \in {b \in RawPublicInputs : Len(b) = 63} :
        Returned("verify_groth16",
                 [proof |-> proof, public_inputs |-> inputs, vk |-> vk,
                  mode |-> mode],
                 [verify_groth16 |->
                      verify_groth16(
                          Groth16VerifyingKeyOf(
                              load_groth16_verifying_key_from_bytes(vk).val),
                          Groth16ProofOf(proof),
                          FrOf(load_public_inputs_from_bytes(inputs).val)),
                  verify_proof_raw |->
                      verify_proof_raw(proof, inputs, vk, mode).result])

\* SP1ProofFixture::from_sp1 / From<SP1ProofWithPublicValues>.
FromSp1 ==
    /\ op = "idle"
    /\ \E version \in {"fixture", "lib"}, sp1 \in SP1Proofs,
          use_public_values \in BOOLEAN :
        Returned("SP1ProofFixture::from_sp1",
                 [version |-> version, sp1 |-> sp1,
                  use_public_values |-> use_public_values],
                 SP1ProofFixture_from_sp1(version, sp1, use_public_values))

ExtractGroth16Components ==
    /\ op = "idle"
    /\ \E sp1 \in SP1Proofs :
        Returned("extract_groth16_components", [sp1 |-> sp1],
                 extract_groth16_components(sp1))

\* The caller has its result; the next call starts afresh.
Return ==
    /\ op # "idle"
    /\ op' = "idle"
    /\ call' = <<>>
    /\ out' = <<>>
    /\ base' = NoBase

Next ==
    \/ GnarkFlagToArkFlag
    \/ HashPublicInputs
    \/ Groth16PublicValues
    \/ LoadPublicInputsFromBytes
    \/ LoadProofFromBytes
    \/ VerifyProofRaw
    \/ VerifyProofFixture
    \/ VerifyProof
    \/ VerifyProofFlippedVkeyHash
    \/ VerifyProofFlippedVk
    \/ ProcessInstructionFixture
    \/ ProcessInstruction
    \/ LoadGroth16VerifyingKeyFromBytes
    \/ DecodeSp1VkeyHash
    \/ SaveFixture
    \/ LoadFixture
    \/ DecompressG1
    \/ DecompressG2
    \/ NegateG1
    \/ NegateG1Again
    \/ PrepareInputs
    \/ VerifyGroth16
    \/ FromSp1
    \/ ExtractGroth16Components
    \/ Return

Spec == Init /\ [][Next]_vars

(***************************************************************************)
(* Properties.                                                             *)
(***************************************************************************)
VerificationOps == {"verify_proof_raw", "verify_proof_fixture", "verify_proof"}
ProgramOps == {"process_instruction_fixture", "process_instruction"}

\* The run of the verification that the last operation made.
LastRun == IF op \in ProgramOps THEN out.verification ELSE out

\* C1: verify_proof_fixture, given a vk whose SHA-256 does not start with the
\* fixture's groth16_vkey_hash, returns Groth16VkeyHashMismatch having invoked
\* nothing but the digest: no loader ran, nothing was handed to the Groth16
\* verifier and the verifier did not run, whatever the proof and the vk are.
C1_FingerprintGateFirst ==
    (op = "verify_proof_fixture"
        /\ Fingerprint(call.vk) # call.fixture.groth16_vkey_hash)
    => /\ out.result = Err("Groth16VkeyHashMismatch")
       /\ out.trace = <<"Sha256::digest">>
       /\ out.handed = NotHanded
       /\ out.engine = NotRun

C1_MismatchOnMalformedInputs ==
    /\ op = "verify_proof_fixture"
    /\ call.fixture.proof = GarbageProof
    /\ call.vk = TruncatedVk
    /\ Fingerprint(call.vk) # call.fixture.groth16_vkey_hash
    /\ out.result = Err("Groth16VkeyHashMismatch")

\* C2: verify_proof_fixture returns Ok only if the second scalar handed to
\* the Groth16 verifier is hash_public_inputs(fixture.sp1_public_inputs), so
\* that a fixture with other sp1_public_inputs is not accepted.
C2_FixtureBoundToSp1PublicInputs ==
    (op = "verify_proof_fixture" /\ IsOk(out.result)
        /\ call.fixture.sp1_public_inputs.some)
    => out.handed.val.public_inputs[2]
           = hash_public_inputs(call.fixture.sp1_public_inputs.val)

C2_AcceptedWithOtherSp1PublicInputs ==
    /\ op = "verify_proof_fixture"
    /\ IsOk(out.result)
    /\ call.fixture.sp1_public_inputs = Some(TamperedPublicValues)
    /\ out.handed.val.public_inputs[2] = hash_public_inputs(FibonacciPublicValues)

\* C3: hash_public_inputs(x) is 32 bytes, its byte 0 is the digest's byte 0
\* with the top three bits cleared, its bytes 1..31 are the digest's.
C3_HashPublicInputsMask ==
    op = "hash_public_inputs"
    => LET digest == Sha256(call.public_inputs)
       IN  /\ Len(out) = 32
           /\ out[1] = digest[1] % 32
           /\ out[1] \div 32 = 0
           /\ \A i \in 2..32 : out[i] = digest[i]

C3_MaskClearsSetBits ==
    /\ op = "hash_public_inputs"
    /\ Sha256(call.public_inputs)[1] >= 32
    /\ out[1] < 32

\* C4: groth16_public_values(h, P) is h[1..32] followed by
\* hash_public_inputs(P), 63 bytes, and load_public_inputs_from_bytes of it
\* is the two scalars 0x00 || h[1..32] and hash_public_inputs(P).
C4_PublicValuesLayout ==
    /\ op = "groth16_public_values"
       => /\ Len(out) = 63
          /\ out = SubSeq(call.sp1_vkey_hash, 2, 32)
                   \o hash_public_inputs(call.sp1_public_inputs)
    /\ op = "load_public_inputs_from_bytes"
       => out = Ok(<< <<0>> \o SubSeq(call.sp1_vkey_hash, 2, 32),
                      hash_public_inputs(call.sp1_public_inputs) >>)

C4_TwoScalarsLoaded ==
    /\ op = "load_public_inputs_from_bytes"
    /\ call.sp1_vkey_hash = OtherVkeyHash
    /\ IsOk(out)
    /\ Len(out.val) = 2
    /\ Len(out.val[1]) = 32
    /\ Len(out.val[2]) = 32

\* C5: verify_proof on an accepted input with any one bit of sp1_vkey_hash
\* flipped returns an error, and the public inputs handed to the verifier
\* differ from those of the accepted call.
C5_AnyVkeyHashBitFlipRejected ==
    (op = "verify_proof" /\ base.some /\ base.field = "sp1_vkey_hash")
    => /\ ~IsOk(out.result)
       /\ out.handed.some
          => out.handed.val.public_inputs # base.out.handed.val.public_inputs

C5_FirstByteFlipAccepted ==
    /\ op = "verify_proof"
    /\ base.some
    /\ base.field = "sp1_vkey_hash"
    /\ base.offset = 0
    /\ IsOk(out.result)
    /\ out.handed = base.out.handed

\* C6: verification on an accepted input with any one bit of the vk buffer
\* flipped does not return Ok, the bits of bytes 32..64, of bytes 192..224
\* and of the commitment-group index bytes included.
C6_AnyVkBitFlipRejected ==
    (op \in {"verify_proof", "verify_proof_raw"} /\ base.some /\ base.field = "vk")
    => ~IsOk(out.result)

C6_SkippedRegionFlipAccepted ==
    /\ op \in {"verify_proof", "verify_proof_raw"}
    /\ base.some
    /\ base.field = "vk"
    /\ base.offset \in SkippedVkOffsets
    /\ call.vk # base.call.vk
    /\ IsOk(out.result)

\* C7: a verification returns Ok exactly when Groth16Verifier::verify ran and
\* answered true; when it answered false the result is VerificationError.
C7_OkIffPairingCheckTrue ==
    op \in VerificationOps \cup ProgramOps
    => /\ IsOk(LastRun.result)
          <=> (IsOk(LastRun.engine) /\ LastRun.engine.val)
       /\ (IsOk(LastRun.engine) /\ ~LastRun.engine.val)
          => LastRun.result = Err("VerificationError")

C7_FalseAnswerRejected ==
    /\ op = "verify_proof_raw"
    /\ IsOk(out.engine)
    /\ ~out.engine.val
    /\ out.result = Err("VerificationError")

\* C8: an example program returns Ok only if its verification returned Ok,
\* and it never panics.
C8_ProgramOkOnlyIfVerified ==
    op \in ProgramOps
    => /\ IsOk(out.result) => IsOk(out.verification.result)
       /\ out.result # Panic

C8_OkAfterFailedVerification ==
    /\ op = "process_instruction_fixture"
    /\ IsOk(out.result)
    /\ out.verification.result = Err("VerificationError")

\* C9: gnark_flag_to_ark_flag maps the top bits 10 to 00, 11 to 10 and 01 to
\* 01 and keeps the low six bits; top bits 00 give InvalidInput.
C9_FlagRemap ==
    op = "gnark_flag_to_ark_flag"
    => LET top == call.msb \div 64
           low == call.msb % 64
       IN  /\ top = 2 => out = Ok(low)
           /\ top = 3 => out = Ok(128 + low)
           /\ top = 1 => out = Ok(64 + low)
           /\ top = 0 => out = Err("InvalidInput")

C9_PositiveFlagRemapped ==
    /\ op = "gnark_flag_to_ark_flag"
    /\ call.msb = 133
    /\ out = Ok(5)

C11_ProofLengthChecked ==
    (op = "load_proof_from_bytes" /\ Len(call.buffer) # 256)
    => out.tag = "Err"

C11_LongProofAccepted ==
    /\ op = "load_proof_from_bytes"
    /\ call.buffer = LongProof
    /\ IsOk(out)
    /\ out.val.pi_c = SubSeq(call.buffer, 193, 256)

\* C12: load_groth16_verifying_key_from_bytes of a well-formed buffer is Ok
\* with alpha decompressed from bytes 0..32, beta from 64..128, gamma from
\* 128..192, delta from 224..288, num_k the big-endian u32 at 288..292,
\* vk_ic the num_k points decompressed from offset 292 on in order, and
\* nr_pubinputs the big-endian u32 at 292 + 32 * num_k.
C12_VkLayout ==
    (op = "load_groth16_verifying_key_from_bytes"
        /\ call.buffer \in WellFormedVks)
    => LET b == call.buffer
           num_k == u32_from_be_bytes(SubSeq(b, 289, 292))
       IN  /\ IsOk(out)
           /\ out.val.vk_alpha_g1 = decompress_g1(SubSeq(b, 1, 32)).val
           /\ out.val.vk_beta_g2 = decompress_g2(SubSeq(b, 65, 128)).val
           /\ out.val.vk_gamma_g2 = decompress_g2(SubSeq(b, 129, 192)).val
           /\ out.val.vk_delta_g2 = decompress_g2(SubSeq(b, 225, 288)).val
           /\ Len(out.val.vk_ic) = num_k
           /\ \A i \in 1..num_k :
                out.val.vk_ic[i]
                    = decompress_g1(SubSeq(b, 292 + 32 * (i - 1) + 1, 292 + 32 * i)).val
           /\ out.val.nr_pubinputs
                = u32_from_be_bytes(SubSeq(b, 292 + 32 * num_k + 1, 292 + 32 * num_k + 4))

C12_FourPointsTwoGroups ==
    /\ op = "load_groth16_verifying_key_from_bytes"
    /\ call.buffer = VkWith(<<16, 13, 18, 20>>, <<2, 0>>)
    /\ IsOk(out)
    /\ Len(out.val.vk_ic) = 4
    /\ out.val.vk_ic[4] = decompress_g1(CompressedG1(20)).val
    /\ out.val.nr_pubinputs = 2

\* C13: load_groth16_verifying_key_from_bytes of a buffer shorter than the
\* length its parse requires (here the embedded key, three k points and one
\* group of one index, cut short) returns the value InvalidInput: it neither
\* panics nor returns Ok.
C13_ShortVkInvalidInput ==
    (op = "load_groth16_verifying_key_from_bytes"
        /\ call.buffer \in TruncatedVks
        /\ Len(call.buffer) < RequiredVkLen(3, <<1>>))
    => out = Err("InvalidInput")

C13_CutInsideIndexWordAccepted ==
    /\ op = "load_groth16_verifying_key_from_bytes"
    /\ call.buffer = Slice(GROTH16_VK_BYTES, 0, 398)
    /\ Len(call.buffer) < RequiredVkLen(3, <<1>>)
    /\ IsOk(out)
    /\ out = load_groth16_verifying_key_from_bytes(GROTH16_VK_BYTES)

\* C14: errors of the verifier engine reach the caller of verify_proof_raw
\* unchanged: a key whose vk_ic does not hold 2 + 1 points gives
\* InvalidPublicInput, a failed add/mul primitive gives ArithmeticError.
C14_EngineErrorsUnchanged ==
    (op = "verify_proof_raw" /\ out.handed.some)
    => /\ Len(out.handed.val.vk.vk_ic) # Len(out.handed.val.public_inputs) + 1
          => out.result = Err("InvalidPublicInput")
       /\ (out.engine.tag = "Err" /\ out.engine.err = "PreparingInputsG1MulFailed")
          => out.result = Err("ArithmeticError")

C14_WrongKCountVerificationError ==
    /\ op = "verify_proof_raw"
    /\ call.vk = TwoKVk
    /\ out.handed.some
    /\ Len(out.handed.val.vk.vk_ic) = 2
    /\ out.result = Err("VerificationError")

\* C15: decode_sp1_vkey_hash of "0x" followed by the hex of exactly 32 bytes
\* b is Ok(b); of "0x" followed by hex of another number of bytes, or by
\* characters that are not hex, it is InvalidProgramVkeyHash.
C15_DecodeVkeyHash ==
    (op = "decode_sp1_vkey_hash"
        /\ Len(call.sp1_vkey_hash) >= 2
        /\ SubSeq(call.sp1_vkey_hash, 1, 2) = <<"0", "x">>)
    => LET digits == SubSeq(call.sp1_vkey_hash, 3, Len(call.sp1_vkey_hash))
       IN  /\ (call.encoded.some /\ Len(call.encoded.val) = 32)
              => out = Ok(call.encoded.val)
           /\ (call.encoded.some /\ Len(call.encoded.val) # 32)
              => out = Err("InvalidProgramVkeyHash")
           /\ (\E i \in 1..Len(digits) : ~IsHexChar(digits[i]))
              => out = Err("InvalidProgramVkeyHash")

C15_ThirtyOneBytesRejected ==
    /\ op = "decode_sp1_vkey_hash"
    /\ call.encoded = Some([i \in 1..31 |-> 171])
    /\ call.sp1_vkey_hash[3] = "a"
    /\ Len(call.sp1_vkey_hash) = 64
    /\ out = Err("InvalidProgramVkeyHash")

\* C16: decode_sp1_vkey_hash of any string that is not "0x" followed by 64
\* hex characters is InvalidProgramVkeyHash: no panic and no Ok.
C16_DecodeTotal ==
    (op = "decode_sp1_vkey_hash"
        /\ ~(/\ Len(call.sp1_vkey_hash) = 66
             /\ SubSeq(call.sp1_vkey_hash, 1, 2) = <<"0", "x">>
             /\ \A i \in 3..66 : IsHexChar(call.sp1_vkey_hash[i])))
    => out = Err("InvalidProgramVkeyHash")

C16_OtherPrefixAccepted ==
    /\ op = "decode_sp1_vkey_hash"
    /\ call.sp1_vkey_hash = NoPrefixHash
    /\ out = Ok(FibonacciVkeyHash)

\* C17: loading the bytes that save wrote for a fixture returns a fixture
\* equal to it in every field.
C17_FixtureRoundTrip ==
    op = "SP1ProofFixture::load"
    => /\ IsOk(out)
       /\ out.val.proof = call.fixture.proof
       /\ out.val.public_inputs = call.fixture.public_inputs
       /\ out.val.groth16_vkey_hash = call.fixture.groth16_vkey_hash
       /\ out.val.sp1_public_inputs = call.fixture.sp1_public_inputs

C17_LongPublicValuesRestored ==
    /\ op = "SP1ProofFixture::load"
    /\ call.version = "fixture"
    /\ call.fixture.sp1_public_inputs = Some(LongPublicValues)
    /\ Len(call.file) = 256 + 63 + 4 + 1 + 4 + 300
    /\ IsOk(out)
    /\ out.val.sp1_public_inputs = Some(LongPublicValues)

\* C18: the saved fixture is the 256-byte proof, then sp1_public_inputs as a
\* little-endian u32 length and its bytes, then the 32-byte sp1_vkey_hash
\* (a zero byte and the 31 bytes the fixture keeps of it), then the 4-byte
\* groth16_vkey_hash, and nothing else.
C18_FixtureLayout ==
    op = "SP1ProofFixture::save"
    => LET f == call.fixture
           sp1_public_inputs ==
               IF f.sp1_public_inputs.some THEN f.sp1_public_inputs.val ELSE <<>>
           sp1_vkey_hash == <<0>> \o SubSeq(f.public_inputs, 1, 31)
       IN  out = f.proof
                 \o u32_to_le_bytes(Len(sp1_public_inputs)) \o sp1_public_inputs
                 \o sp1_vkey_hash
                 \o f.groth16_vkey_hash

C18_SavedInDeclarationOrder ==
    /\ op = "SP1ProofFixture::save"
    /\ call.version = "fixture"
    /\ call.fixture.sp1_public_inputs = Some(FibonacciPublicValues)
    /\ out = call.fixture.proof \o call.fixture.public_inputs
             \o call.fixture.groth16_vkey_hash
             \o <<1>> \o <<12, 0, 0, 0>> \o FibonacciPublicValues

\* C19 (as stated): decompress_g1 and decompress_g2 pass the primitive the
\* input with its leading byte flag-remapped and the bytes then reversed;
\* an invalid flag is InvalidInput, a failure of the primitive is
\* G1CompressionError (G2CompressionError).
C19_PrimitiveGetsReversedInput ==
    op \in {"decompress_g1", "decompress_g2"}
    => LET flag == gnark_flag_to_ark_flag(call.bytes[1])
       IN  IF ~IsOk(flag) THEN out.result = Err("InvalidInput")
           ELSE /\ out.handed = Ok(Reverse([call.bytes EXCEPT ![1] = flag.val]))
                /\ out.result =
                       IF op = "decompress_g1"
                       THEN MapErr(alt_bn128_g1_decompress(out.handed.val),
                                   "G1CompressionError")
                       ELSE MapErr(alt_bn128_g2_decompress(out.handed.val),
                                   "G2CompressionError")

\* C19 (amended): the buffer passed to the primitive is the input in its
\* original byte order with only the leading byte flag-remapped (the bytes
\* are reversed twice); an invalid flag is InvalidInput, a failure of the
\* primitive is G1CompressionError (G2CompressionError).
C19_PrimitiveGetsInputOrder ==
    op \in {"decompress_g1", "decompress_g2"}
    => LET flag == gnark_flag_to_ark_flag(call.bytes[1])
       IN  IF ~IsOk(flag) THEN out.result = Err("InvalidInput")
           ELSE /\ out.handed = Ok([call.bytes EXCEPT ![1] = flag.val])
                /\ out.result =
                       IF op = "decompress_g1"
                       THEN MapErr(alt_bn128_g1_decompress(out.handed.val),
                                   "G1CompressionError")
                       ELSE MapErr(alt_bn128_g2_decompress(out.handed.val),
                                   "G2CompressionError")

C19_NegativeFlagInputOrder ==
    /\ op = "decompress_g1"
    /\ BitAnd(call.bytes[1], GNARK_MASK) = GNARK_COMPRESSED_NEGATIVE
    /\ IsOk(out.handed)
    /\ out.handed.val[1] = BitOr(ARK_COMPRESSED_NEGATIVE, 5)
    /\ out.handed.val # Reverse(out.handed.val)
    /\ SubSeq(out.handed.val, 2, 32) = SubSeq(call.bytes, 2, 32)
    /\ IsOk(out.result)

\* C20: for a big-endian x || y with x and y in [0, p), negate_g1 returns
\* x unchanged followed by the big-endian (p - y) mod p, and negate_g1 of
\* that result is the input again.
C20_NegateG1 ==
    LET x == SubSeq(call.g1_bytes, 1, 32)
        y == SubSeq(call.g1_bytes, 33, 64)
        inField == LtBE(x, FqModulus) /\ LtBE(y, FqModulus)
    IN  /\ (op = "negate_g1" /\ inField
            => out = Ok(x \o (IF y = Zeros(32) THEN y ELSE SubBE(FqModulus, y))))
        /\ (op = "negate_g1 of negate_g1" /\ inField
            => out = Ok(call.g1_bytes))

C20_SignFlagInNegatedY ==
    /\ op = "negate_g1"
    /\ call.g1_bytes = UncompressedG1(1)
    /\ IsOk(out)
    /\ SubSeq(out.val, 1, 32) = SubSeq(call.g1_bytes, 1, 32)
    /\ out.val[33] = SubBE(FqModulus, SubSeq(call.g1_bytes, 33, 64))[1] + Shl(1, 7)
    /\ SubSeq(out.val, 34, 64)
       = SubSeq(SubBE(FqModulus, SubSeq(call.g1_bytes, 33, 64)), 2, 32)

\* C21: the proof loader answers a 256-byte proof whose A point has a
\* coordinate of p or more with an error, and no two proofs with different
\* 64-byte encodings of A load to the same pi_a.
C21_OutOfRangeARejected ==
    op = "load_proof_from_bytes" /\ Len(call.buffer) = 256
    => LET x == SubSeq(call.buffer, 1, 32)
           y == SubSeq(call.buffer, 33, 64)
       IN  /\ (~LtBE(x, FqModulus) \/ ~LtBE(y, FqModulus) => out.tag = "Err")
           /\ \A other \in ProofBuffers :
                  /\ Len(other) = 256
                  /\ SubSeq(other, 1, 64) # SubSeq(call.buffer, 1, 64)
                  /\ IsOk(out)
                  /\ IsOk(load_proof_from_bytes(other))
                  => load_proof_from_bytes(other).val.pi_a # out.val.pi_a

C21_AliasedALoadsAsReduced ==
    /\ op = "load_proof_from_bytes"
    /\ call.buffer = AliasedA
    /\ ~LtBE(SubSeq(call.buffer, 1, 32), FqModulus)
    /\ SubSeq(call.buffer, 1, 64) # SubSeq(ProofWithC(3), 1, 64)
    /\ IsOk(out)
    /\ out = load_proof_from_bytes(ProofWithC(3))

\* C22: prepare_inputs answers PrepareInputsFailed whenever the number of
\* inputs plus one is not the number of points k (an empty k included), and
\* otherwise k[0] plus the sum of public_inputs[i] times k[i + 1].
C22_PrepareInputs ==
    op = "prepare_inputs"
    => LET k == call.k
           public_inputs == call.public_inputs
           sum[n \in 0..Len(public_inputs)] ==
               IF n = 0 THEN 0 ELSE sum[n - 1] + public_inputs[n] * k[n + 1]
       IN  IF Len(public_inputs) + 1 # Len(k)
           THEN out = Err("PrepareInputsFailed")
           ELSE out = Ok((k[1] + sum[Len(public_inputs)]) % PairingOrder)

C22_ThreeInputsInOrder ==
    /\ op = "prepare_inputs"
    /\ call.k = <<1, 3, 6, 1>>
    /\ call.public_inputs = <<2, 0, 5>>
    /\ out = Ok((1 + 2 * 3 + 0 * 6 + 5 * 1) % PairingOrder)
    /\ out # Ok((1 + 5 * 3 + 0 * 6 + 2 * 1) % PairingOrder)

C24_ConversionTotal ==
    op \in {"SP1ProofFixture::from_sp1", "extract_groth16_components"}
    => LET pad(n, w) == [i \in 1..(w - Len(n)) |-> 0] \o n
           h == BigUint_from_str_radix_10(call.sp1.proof.public_inputs[1])
           d == BigUint_from_str_radix_10(call.sp1.proof.public_inputs[2])
       IN  /\ Len(h) <= 31 /\ Len(d) <= 32
           /\ IsOk(out)
           /\ op = "SP1ProofFixture::from_sp1"
              => /\ out.val.public_inputs = pad(h, 31) \o pad(d, 32)
                 /\ commited_values_digest(out.val)
                    = hash_public_inputs(call.sp1.public_values)
                 /\ SP1ProofFixture_vkey_hash(out.val)
                    = hex_encode(<<0>> \o pad(h, 31))
           /\ op = "extract_groth16_components"
              => out.val[3] = <<0>> \o pad(h, 31)

C24_LeadingZeroPanics ==
    /\ op = "SP1ProofFixture::from_sp1"
    /\ call.sp1.public_values = FibonacciPublicValues
    /\ Len(BigUint_from_str_radix_10(call.sp1.proof.public_inputs[1])) = 30
    /\ Len(BigUint_from_str_radix_10(call.sp1.proof.public_inputs[2])) = 32
    /\ out = Panic

=============================================================================
